---- MODULE Spec2Model ----
(***************************************************************************)
(* A model of the fuzzy string matcher: the character equivalence, the     *)
(* single-pass aligner (Match.Compare), Find / FindFrom with their sort,   *)
(* and the BestMatch / BestMatchFrom selector of the second library        *)
(* variant.                                                                *)
(*                                                                         *)
(* Strings are Go strings: sequences of bytes (0..255).  Runes are code    *)
(* points (integers).  Go indexes are 0-based; sequences here are 1-based, *)
(* so Go's s[k] is s[k + 1] below.                                         *)
(*                                                                         *)
(* Definitions without a prefix model src/fuzzy.go.  Definitions with the  *)
(* prefix teal_ model the second library variant, the one that has         *)
(* BestMatch (src/unnamed/part_000, lines 199-618).                        *)
(***************************************************************************)
EXTENDS Integers, Sequences, FiniteSets, TLC

VARIABLES
    pc,         \* position of the running call
    api,        \* which exported function was called
    inRunes,    \* Compare: the decoded pattern
    loc,        \* Compare: the record under alignment and the scan's locals
    ret,        \* Compare: the returned *Match ([isNil, match])
    commits,    \* Compare: number of commits performed by the scan so far
    pattern,    \* Find / BestMatch: the pattern string
    dictionary, \* Find / BestMatch: the candidates, in source order
    fi,         \* Find / BestMatch: the loop index i
    matches,    \* Find: the Matches slice being built ([isNil, elems])
    recycled,   \* Find: the matchedIndexes slot carried between iterations
    calls,      \* FindFrom: the calls made on the Source so far
    result,     \* Find: the returned Matches ([isNil, elems])
    recs,       \* BestMatchFrom: the two Match records
    bestp,      \* BestMatchFrom: which record `best` points to
    matchp,     \* BestMatchFrom: which record `match` points to
    bestRet,    \* BestMatchFrom: the returned *Match ([isNil, match])
    foldIn,     \* equalFold: the pair of runes given
    foldOut     \* equalFold: the scores returned for (a, b) and (b, a)

vars == <<pc, api, inRunes, loc, ret, commits, pattern, dictionary, fi,
          matches, recycled, calls, result, recs, bestp, matchp, bestRet,
          foldIn, foldOut>>

compareVars == <<inRunes, loc, ret, commits>>
findVars == <<fi, matches, recycled, calls, result>>
bestVars == <<recs, bestp, matchp, bestRet>>
foldVars == <<foldIn, foldOut>>

----------------------------------------------------------------------------
(* Bounds of the model *)

\* longest pattern of the single-alignment specification, in characters
MaxPat == 2
\* longest candidate of the single-alignment specification, in characters
MaxCand == 3
\* longest dictionary of the Find and BestMatch specifications
MaxDict == 3
\* Longest candidate of the byte-string specification, in bytes
MaxBytes == 4
\* Longest pattern of the run specification, in characters; its candidates
\* have up to one character more
MaxRun == 4

----------------------------------------------------------------------------
(* Scoring weights of src/fuzzy.go *)

firstCharMatchBonus == 10
caseSensitiveBonus == 3
matchFollowingSeparatorBonus == 20
camelCaseMatchBonus == 20
adjacentMatchBonus == 5
unmatchedLeadingCharPenalty == -5
maxUnmatchedLeadingCharPenalty == -15
\* `/-_ .\`
separators == <<47, 45, 95, 32, 46, 92>>

(* Scoring weights of the BestMatch variant that differ *)
teal_caseSensitiveBonus == 1
teal_penaltyUnmatched == 1

(* unicode/utf8 *)
RuneSelf == 128
RuneError == 65533

----------------------------------------------------------------------------
(* Go library functions the code calls *)

Range(s) == {s[k] : k \in 1..Len(s)}

IsCont(b) == b >= 128 /\ b <= 191

\* utf8.DecodeRuneInString(s[k:]) for a 0-based byte offset k: the rune and
\* its width; (RuneError, 0) at the end, (RuneError, 1) on a malformed
\* sequence.
DecodeRuneInString(s, k) ==
    LET n == Len(s) - k
        b0 == s[k + 1]
        b1 == s[k + 2]
        b2 == s[k + 3]
        b3 == s[k + 4]
        bad == [rune |-> RuneError, size |-> 1]
    IN  IF n <= 0 THEN [rune |-> RuneError, size |-> 0]
        ELSE IF b0 < RuneSelf THEN [rune |-> b0, size |-> 1]
        ELSE IF b0 >= 194 /\ b0 <= 223 THEN
            IF n >= 2 /\ IsCont(b1)
            THEN [rune |-> (b0 - 192) * 64 + (b1 - 128), size |-> 2]
            ELSE bad
        ELSE IF b0 >= 224 /\ b0 <= 239 THEN
            IF /\ n >= 3
               /\ b1 >= (IF b0 = 224 THEN 160 ELSE 128)
               /\ b1 <= (IF b0 = 237 THEN 159 ELSE 191)
               /\ IsCont(b2)
            THEN [rune |-> (b0 - 224) * 4096 + (b1 - 128) * 64 + (b2 - 128),
                  size |-> 3]
            ELSE bad
        ELSE IF b0 >= 240 /\ b0 <= 244 THEN
            IF /\ n >= 4
               /\ b1 >= (IF b0 = 240 THEN 144 ELSE 128)
               /\ b1 <= (IF b0 = 244 THEN 143 ELSE 191)
               /\ IsCont(b2)
               /\ IsCont(b3)
            THEN [rune |-> (b0 - 240) * 262144 + (b1 - 128) * 4096
                           + (b2 - 128) * 64 + (b3 - 128),
                  size |-> 4]
            ELSE bad
        ELSE bad

RECURSIVE RunesFrom(_, _)
RunesFrom(s, k) ==
    IF k >= Len(s) THEN <<>>
    ELSE LET d == DecodeRuneInString(s, k)
         IN  <<d.rune>> \o RunesFrom(s, k + d.size)

\* []rune(s)
ToRunes(s) == RunesFrom(s, 0)

\* unicode.SimpleFold, on the code points the model's alphabets use: ASCII,
\* U+00C9 / U+00E9, U+017F (long s), U+212A (Kelvin sign), U+FFFD.
SimpleFold(r) ==
    CASE r = 75 -> 107
      [] r = 107 -> 8490
      [] r = 8490 -> 75
      [] r = 83 -> 115
      [] r = 115 -> 383
      [] r = 383 -> 83
      [] r = 201 -> 233
      [] r = 233 -> 201
      [] r >= 65 /\ r <= 90 /\ r # 75 /\ r # 83 -> r + 32
      [] r >= 97 /\ r <= 122 /\ r # 107 /\ r # 115 -> r - 32
      [] OTHER -> r

\* unicode.IsLower, on the same code points
IsLower(r) == (r >= 97 /\ r <= 122) \/ r = 233 \/ r = 383

\* unicode.IsUpper, on the same code points
IsUpper(r) == (r >= 65 /\ r <= 90) \/ r = 201 \/ r = 8490

----------------------------------------------------------------------------
(* src/fuzzy.go: helpers *)

max(x, y) == IF x > y THEN x ELSE y

isSeparator(s) == \E k \in 1..Len(separators) : s = separators[k]

adjacentCharBonus(i, lastMatch, currentBonus) ==
    IF lastMatch = i THEN currentBonus * 2 + adjacentMatchBonus ELSE 0

\* the loop `for r != targetRune && r < inRune { r = SimpleFold(r) }`
RECURSIVE FoldChain(_, _, _)
FoldChain(r, targetRune, inRune) ==
    IF r # targetRune /\ r < inRune
    THEN FoldChain(SimpleFold(r), targetRune, inRune)
    ELSE r

\* equalFold without the rule that any two separators match
equalFold_noSeparators(inRune, targetRune) ==
    IF inRune = targetRune THEN caseSensitiveBonus
    ELSE IF targetRune = 0 THEN 1
    ELSE LET hi == IF inRune < targetRune THEN targetRune ELSE inRune
             lo == IF inRune < targetRune THEN inRune ELSE targetRune
         IN  IF hi < RuneSelf
             THEN IF lo <= 90 /\ 65 <= lo /\ hi = lo + 32 THEN 1 ELSE 0
             ELSE IF FoldChain(SimpleFold(lo), lo, hi) = hi THEN 1 ELSE 0

\* equalFold, lines 260-299
equalFold(inRune, targetRune) ==
    IF inRune = targetRune THEN caseSensitiveBonus
    ELSE IF targetRune = 0 THEN 1
    ELSE IF isSeparator(inRune) /\ isSeparator(targetRune) THEN 1
    ELSE LET hi == IF inRune < targetRune THEN targetRune ELSE inRune
             lo == IF inRune < targetRune THEN inRune ELSE targetRune
         IN  IF hi < RuneSelf
             THEN IF lo <= 90 /\ 65 <= lo /\ hi = lo + 32 THEN 1 ELSE 0
             ELSE IF FoldChain(SimpleFold(lo), lo, hi) = hi THEN 1 ELSE 0

equalRunesFold(runes, index, targetRune) ==
    IF index >= Len(runes) THEN 0 ELSE equalFold(runes[index + 1], targetRune)

----------------------------------------------------------------------------
(* src/fuzzy.go: Match.Compare, one definition per part of the function *)

\* A Match value.  MatchedIndexes is the slice's visible content.
NewMatch(str, index) ==
    [Str |-> str, Index |-> index, MatchedIndexes |-> <<>>, Score |-> 0]

\* Lines 170-179: the locals before the loop.  m is the receiver.
MatchCompareEnter(m, runes) ==
    LET d == DecodeRuneInString(m.Str, 0)
    IN  [match |-> m,
         i |-> 0,
         inRunesIndex |-> 0,
         bestScore |-> -1,
         matchedIndex |-> -1,
         currAdjacentMatchBonus |-> 0,
         last |-> 0,
         lastIndex |-> 0,
         nextTargetRune |-> d.rune,
         nextSize |-> d.size]

\* Line 181: the loop condition
MatchCompareGuard(l) == l.i < Len(l.match.Str)

\* Lines 207-210: the pattern character after the cursor, 0 when none
NextInRune(runes, l) ==
    IF l.inRunesIndex < Len(runes) - 1 THEN runes[l.inRunesIndex + 2] ELSE 0

\* Every candidate character is given the width of one byte
NextTarget_byteWise(l) ==
    LET k == l.i + l.nextSize
        str == l.match.Str
    IN  IF k < Len(str)
        THEN [rune |-> DecodeRuneInString(str, k).rune, size |-> 1]
        ELSE [rune |-> 0, size |-> 0]

\* An undecodable byte is given the width 0 instead of 1
NextTarget_zeroWidthError(l) ==
    LET k == l.i + l.nextSize
        str == l.match.Str
    IN  IF k < Len(str)
        THEN IF str[k + 1] < RuneSelf
             THEN [rune |-> str[k + 1], size |-> 1]
             ELSE IF DecodeRuneInString(str, k).rune = RuneError
                  THEN [rune |-> RuneError, size |-> 0]
                  ELSE DecodeRuneInString(str, k)
        ELSE [rune |-> 0, size |-> 0]

\* Lines 212-220: the candidate character after position i, (0, 0) when none
NextTarget(l) ==
    LET k == l.i + l.nextSize
        str == l.match.Str
    IN  IF k < Len(str)
        THEN IF str[k + 1] < RuneSelf
             THEN [rune |-> str[k + 1], size |-> 1]
             ELSE DecodeRuneInString(str, k)
        ELSE [rune |-> 0, size |-> 0]

\* The local score without the strength of the character match (the bonuses
\* only)
LocalScore_bonusesOnly(runes, l) ==
    LET i == l.i
        candidate == l.nextTargetRune
        eq == equalRunesFold(runes, l.inRunesIndex, candidate)
        mi == l.match.MatchedIndexes
        bonus == IF Len(mi) > 0
                 THEN adjacentCharBonus(l.lastIndex, mi[Len(mi)],
                                        l.currAdjacentMatchBonus)
                 ELSE 0
        score == (IF i = 0 THEN firstCharMatchBonus ELSE 0)
                 + (IF IsLower(l.last) /\ IsUpper(candidate)
                    THEN camelCaseMatchBonus ELSE 0)
                 + (IF i # 0 /\ isSeparator(l.last)
                    THEN matchFollowingSeparatorBonus ELSE 0)
                 + bonus
    IN  [matched |-> eq > 0, score |-> score, bonus |-> bonus]

\* Lines 183-205: the local score of position i and the pending best
LocalScore(runes, l) ==
    LET i == l.i
        candidate == l.nextTargetRune
        eq == equalRunesFold(runes, l.inRunesIndex, candidate)
        mi == l.match.MatchedIndexes
        bonus == IF Len(mi) > 0
                 THEN adjacentCharBonus(l.lastIndex, mi[Len(mi)],
                                        l.currAdjacentMatchBonus)
                 ELSE 0
        score == eq
                 + (IF i = 0 THEN firstCharMatchBonus ELSE 0)
                 + (IF IsLower(l.last) /\ IsUpper(candidate)
                    THEN camelCaseMatchBonus ELSE 0)
                 + (IF i # 0 /\ isSeparator(l.last)
                    THEN matchFollowingSeparatorBonus ELSE 0)
                 + bonus
    IN  [matched |-> eq > 0, score |-> score, bonus |-> bonus]

\* No commit at the end of the candidate while pattern characters remain
CommitNow_notAtLoneEnd(runes, l, matchedIndex) ==
    /\ matchedIndex > -1
    /\ equalFold(NextInRune(runes, l), NextTarget(l).rune) > 0
    /\ ~(NextTarget(l).size = 0 /\ l.inRunesIndex < Len(runes) - 1)

\* Lines 227-228: whether the pending best is committed at position i
CommitNow(runes, l, matchedIndex) ==
    /\ matchedIndex > -1
    /\ equalFold(NextInRune(runes, l), NextTarget(l).rune) > 0

\* A commit forgets to reset the pending best
PendingAfter_noReset(commit, bestScore) == bestScore

\* Lines 235 (and 447 of the BestMatch variant): the pending best score after
\* the commit decision, reset by a commit
PendingAfter(commit, bestScore) == IF commit THEN -1 ELSE bestScore

\* The leading penalty is applied at every commit
WithLeadingPenalty_everyCommit(mi, matchedIndex, bestScore) ==
    bestScore + max(matchedIndex * unmatchedLeadingCharPenalty,
                    maxUnmatchedLeadingCharPenalty)

\* Lines 229-232: the pending best score with the leading penalty, which the
\* first commit gets; mi is match.MatchedIndexes before the commit
WithLeadingPenalty(mi, matchedIndex, bestScore) ==
    IF Len(mi) = 0
    THEN bestScore + max(matchedIndex * unmatchedLeadingCharPenalty,
                         maxUnmatchedLeadingCharPenalty)
    ELSE bestScore

\* Lines 182-241 and the loop's `i += candidateSize`: one iteration
MatchCompareBody(runes, l) ==
    LET candidate == l.nextTargetRune
        candidateSize == l.nextSize
        ls == LocalScore(runes, l)
        curr1 == IF ls.matched
                 THEN l.currAdjacentMatchBonus + ls.bonus
                 ELSE l.currAdjacentMatchBonus
        better == ls.matched /\ ls.score > l.bestScore
        bestScore1 == IF better THEN ls.score ELSE l.bestScore
        matchedIndex1 == IF better THEN l.i ELSE l.matchedIndex
        nt == NextTarget(l)
        extra == equalFold(NextInRune(runes, l), nt.rune)
        commit == CommitNow(runes, l, matchedIndex1)
        bestScore2 == WithLeadingPenalty(l.match.MatchedIndexes, matchedIndex1,
                                         bestScore1)
    IN  [match |-> IF commit
                   THEN [l.match EXCEPT
                            !.Score = @ + bestScore2 + extra,
                            !.MatchedIndexes = Append(@, matchedIndex1)]
                   ELSE l.match,
         i |-> l.i + candidateSize,
         inRunesIndex |-> IF commit THEN l.inRunesIndex + 1 ELSE l.inRunesIndex,
         bestScore |-> PendingAfter(commit, bestScore1),
         matchedIndex |-> matchedIndex1,
         currAdjacentMatchBonus |-> curr1,
         last |-> candidate,
         lastIndex |-> l.i,
         nextTargetRune |-> nt.rune,
         nextSize |-> nt.size]

\* Lines 244-248: the penalty for unmatched characters and the verdict
MatchCompareExit(runes, l) ==
    LET penalty == Len(l.match.MatchedIndexes) - Len(l.match.Str)
    IN  [match |-> [l.match EXCEPT !.Score = @ + penalty],
         ok |-> Len(l.match.MatchedIndexes) = Len(runes)]

RECURSIVE MatchCompareLoop(_, _)
MatchCompareLoop(runes, l) ==
    IF MatchCompareGuard(l)
    THEN MatchCompareLoop(runes, MatchCompareBody(runes, l))
    ELSE l

\* (match *Match).Compare(inRunes): the receiver afterwards and the verdict
MatchCompare(m, runes) ==
    MatchCompareExit(runes, MatchCompareLoop(runes, MatchCompareEnter(m, runes)))

\* Compare(in, target), lines 153-166: nil or the match
Compare(in, target) ==
    LET r == MatchCompare(NewMatch(target, 0), ToRunes(in))
    IN  IF r.ok THEN [isNil |-> FALSE, match |-> r.match]
        ELSE [isNil |-> TRUE, match |-> NewMatch(<<>>, 0)]

----------------------------------------------------------------------------
(* src/fuzzy.go: Find and FindFrom *)

\* A slice that is nil, or a slice with the elements elems
NilSlice == [isNil |-> TRUE, elems |-> <<>>]
Slice(elems) == [isNil |-> FALSE, elems |-> elems]

\* A *Match that is nil, or points to m
NilMatch == [isNil |-> TRUE, match |-> NewMatch(<<>>, 0)]
PtrTo(m) == [isNil |-> FALSE, match |-> m]

\* The empty pattern is not told apart
EmptyPattern_never(in) == FALSE

\* Lines 86-88 and 120-122: the early return on the empty pattern
EmptyPattern(in) == Len(in) = 0

\* Less orders by ascending Score
Less_ascending(a, i, j) == a[i + 1].Score <= a[j + 1].Score

\* Less is strict, which makes the sort keep ties in source order
Less_strict(a, i, j) == a[i + 1].Score > a[j + 1].Score

\* Matches.Less, line 46
Less(a, i, j) == a[i + 1].Score >= a[j + 1].Score

\* Swap copies a[j] over a[i] and loses a[i]
Swap_overwrite(a, i, j) == [a EXCEPT ![i + 1] = a[j + 1]]

\* Matches.Swap, line 45
Swap(a, i, j) == [a EXCEPT ![i + 1] = a[j + 1], ![j + 1] = a[i + 1]]

\* sort.Stable(matches), lines 112 and 147, for up to 20 elements (the block
\* size under which Go's stable sort is one insertion sort):
\*   for i := a + 1; i < b; i++ {
\*       for j := i; j > a && data.Less(j, j-1); j-- { data.Swap(j, j-1) } }
RECURSIVE InsertionInner(_, _)
InsertionInner(a, j) ==
    IF j > 0 /\ Less(a, j, j - 1)
    THEN InsertionInner(Swap(a, j, j - 1), j - 1)
    ELSE a

RECURSIVE InsertionOuter(_, _)
InsertionOuter(a, i) ==
    IF i < Len(a) THEN InsertionOuter(InsertionInner(a, i), i + 1) ELSE a

sortStable(ms) ==
    IF ms.isNil THEN ms ELSE Slice(InsertionOuter(ms.elems, 1))

\* dictionary.Len(), line 128: log is the calls made on the Source so far
SourceLen(log) == Append(log, [op |-> "Len", arg |-> 0])

\* The loop reads dictionary.Len() again before every dictionary.String(i)
SourceString_lenAgain(log, i) ==
    Append(Append(log, [op |-> "Len", arg |-> 0]), [op |-> "String", arg |-> i])

\* dictionary.String(i), line 131
SourceString(log, i) == Append(log, [op |-> "String", arg |-> i])

\* Lines 94-111 (Find) and 129-146 (FindFrom): one iteration of the loop.
\* st is [matches, matchedIndexes]; str is dictionary[i] / dictionary.String(i).
FindLoopBody(runes, str, i, st) ==
    LET m == NewMatch(str, i)
        r == MatchCompare(m, runes)
    IN  IF r.ok
        THEN [matches |-> Slice(Append(st.matches.elems, r.match)),
              matchedIndexes |-> NilSlice]
        ELSE [matches |-> st.matches,
              matchedIndexes |-> Slice(<<>>)]

----------------------------------------------------------------------------
(* The BestMatch variant (src/unnamed/part_000): character equivalence *)

\* isSeparator with enableFasterCode: strings.IndexByte(separators, byte(r))
teal_isSeparator(r) == \E k \in 1..Len(separators) : r % 256 = separators[k]

\* fastPunctuationCheck, lines 579-589
fastPunctuationCheck(r) ==
    IF r > 90
    THEN IF r < 97 THEN 1 ELSE 0
    ELSE IF r < 48 THEN 1 ELSE 0

\* equalLowerUpperCase, lines 570-576
equalLowerUpperCase(tr, sr) == IF tr = sr + 32 THEN 1 ELSE 0

\* equalFoldOld, lines 496-531
equalFoldOld(tr0, sr0) ==
    IF tr0 = sr0 THEN teal_caseSensitiveBonus
    ELSE LET tr == IF tr0 < sr0 THEN sr0 ELSE tr0
             sr == IF tr0 < sr0 THEN tr0 ELSE sr0
         IN  IF tr < RuneSelf
             THEN IF teal_isSeparator(tr) /\ teal_isSeparator(sr) THEN 1
                  ELSE IF sr <= 90 /\ 65 <= sr /\ tr = sr + 32 THEN 1
                  ELSE 0
             ELSE IF FoldChain(SimpleFold(sr), sr, tr) = tr THEN 1 ELSE 0

\* equalFoldNew, lines 533-567
equalFoldNew(tr0, sr0) ==
    IF tr0 = sr0 THEN teal_caseSensitiveBonus
    ELSE LET tr == IF tr0 < sr0 THEN sr0 ELSE tr0
             sr == IF tr0 < sr0 THEN tr0 ELSE sr0
         IN  IF tr < RuneSelf
             THEN IF tr >= 97 /\ tr <= 122 THEN equalLowerUpperCase(tr, sr)
                  ELSE IF tr < 97 /\ 48 <= tr /\ tr <= 90 THEN 0
                  ELSE fastPunctuationCheck(sr)
             ELSE IF FoldChain(SimpleFold(sr), sr, tr) = tr THEN 1 ELSE 0

\* equalFold, lines 487-493, with enableFasterCode = true
teal_equalFold(tr, sr) == equalFoldNew(tr, sr)

\* equalRuneFold, lines 463-469
equalRuneFold(runes, index, targetRune) ==
    IF index >= Len(runes) THEN 0
    ELSE teal_equalFold(runes[index + 1], targetRune)

\* zeroOrFold, lines 471-485
zeroOrFold(sr, tr) ==
    IF tr = 0 THEN 1
    ELSE IF sr = 0 THEN 0
    ELSE teal_equalFold(sr, tr)

----------------------------------------------------------------------------
(* The BestMatch variant: Match.Compare, lines 377-461 *)

\* Lines 390-417: the local score of position i
teal_LocalScore(runes, l) ==
    LET i == l.i
        candidate == l.nextTargetRune
        eq == equalRuneFold(runes, l.inRunesIndex, candidate)
        mi == l.match.MatchedIndexes
        bonus == IF Len(mi) > 0
                 THEN adjacentCharBonus(l.lastIndex, mi[Len(mi)],
                                        l.currAdjacentMatchBonus)
                 ELSE 0
        score == (IF i = 0 THEN firstCharMatchBonus ELSE 0)
                 + (IF IsLower(l.last) /\ IsUpper(candidate)
                    THEN camelCaseMatchBonus ELSE 0)
                 + (IF i # 0 /\ teal_isSeparator(l.last)
                    THEN matchFollowingSeparatorBonus ELSE 0)
                 + bonus
    IN  [matched |-> eq > 0, score |-> score, bonus |-> bonus]

\* Lines 389-453 and the loop's `i += candidateSize`: one iteration
teal_MatchCompareBody(runes, l) ==
    LET candidate == l.nextTargetRune
        candidateSize == l.nextSize
        ls == teal_LocalScore(runes, l)
        curr1 == IF ls.matched
                 THEN l.currAdjacentMatchBonus + ls.bonus
                 ELSE l.currAdjacentMatchBonus
        better == ls.matched /\ ls.score > l.bestScore
        bestScore1 == IF better THEN ls.score ELSE l.bestScore
        matchedIndex1 == IF better THEN l.i ELSE l.matchedIndex
        nt == NextTarget(l)
        commit == /\ matchedIndex1 > -1
                  /\ zeroOrFold(NextInRune(runes, l), nt.rune) > 0
        bestScore2 == IF Len(l.match.MatchedIndexes) = 0
                      THEN bestScore1
                           + max(matchedIndex1 * unmatchedLeadingCharPenalty,
                                 maxUnmatchedLeadingCharPenalty)
                      ELSE bestScore1
    IN  [match |-> IF commit
                   THEN [l.match EXCEPT
                            !.Score = @ + bestScore2,
                            !.MatchedIndexes = Append(@, matchedIndex1)]
                   ELSE l.match,
         i |-> l.i + candidateSize,
         inRunesIndex |-> IF commit THEN l.inRunesIndex + 1 ELSE l.inRunesIndex,
         bestScore |-> PendingAfter(commit, bestScore1),
         matchedIndex |-> matchedIndex1,
         currAdjacentMatchBonus |-> curr1,
         last |-> candidate,
         lastIndex |-> l.i,
         nextTargetRune |-> nt.rune,
         nextSize |-> nt.size]

\* Lines 456-460
teal_MatchCompareExit(runes, l) ==
    LET penalty == (Len(l.match.MatchedIndexes) - Len(l.match.Str))
                   * teal_penaltyUnmatched
    IN  [match |-> [l.match EXCEPT !.Score = @ + penalty],
         ok |-> Len(l.match.MatchedIndexes) = Len(runes)]

RECURSIVE teal_MatchCompareLoop(_, _)
teal_MatchCompareLoop(runes, l) ==
    IF MatchCompareGuard(l)
    THEN teal_MatchCompareLoop(runes, teal_MatchCompareBody(runes, l))
    ELSE l

\* (match *Match).Compare(sourceRunes)
teal_MatchCompare(m, runes) ==
    teal_MatchCompareExit(runes,
        teal_MatchCompareLoop(runes, MatchCompareEnter(m, runes)))

----------------------------------------------------------------------------
(* The BestMatch variant: FindFrom (lines 295-322) and BestMatchFrom *)

\* Lines 303-317: the loop from index i on, matches being the slice so far
RECURSIVE teal_FindFromLoop(_, _, _, _)
teal_FindFromLoop(runes, dict, i, ms) ==
    IF i < Len(dict)
    THEN LET r == teal_MatchCompare(NewMatch(dict[i + 1], i), runes)
         IN  teal_FindFromLoop(runes, dict, i + 1,
                 IF r.ok THEN Slice(Append(ms.elems, r.match)) ELSE ms)
    ELSE ms

\* FindFrom(source, dictionary); Find(source, dictionary) is FindFrom over
\* stringSource(dictionary), lines 283-285
teal_FindFrom(source, dict) ==
    IF source = <<>> THEN NilSlice
    ELSE sortStable(teal_FindFromLoop(ToRunes(source), dict, 0, NilSlice))

\* Lines 327-339: the two records, best first
BestMatchFromRecords ==
    <<[NewMatch(<<>>, 0) EXCEPT !.Score = -1], NewMatch(<<>>, 0)>>

\* A candidate of equal Score replaces the best
Beats_orEqual(ok, cur, best) == ok /\ cur.Score >= best.Score

\* Line 347: whether the current record replaces the best
Beats(ok, cur, best) == ok /\ cur.Score > best.Score

\* The winner is kept by `best = match` instead of the swap, which leaves the
\* two pointers on one record
BestMatchFromBody_alias(runes, str, i, st) ==
    LET m0 == [st.recs[st.match] EXCEPT
                  !.Str = str, !.MatchedIndexes = <<>>, !.Score = 0]
        r == teal_MatchCompare(m0, runes)
        recs1 == [st.recs EXCEPT ![st.match] = r.match]
    IN  IF Beats(r.ok, r.match, st.recs[st.best])
        THEN [recs |-> [recs1 EXCEPT ![st.match].Index = i],
              best |-> st.match,
              match |-> st.match]
        ELSE [recs |-> recs1, best |-> st.best, match |-> st.match]

\* Lines 343-350: one iteration.  st is [recs, best, match] with best and
\* match the positions in recs the two pointers refer to.
BestMatchFromBody(runes, str, i, st) ==
    LET m0 == [st.recs[st.match] EXCEPT
                  !.Str = str, !.MatchedIndexes = <<>>, !.Score = 0]
        r == teal_MatchCompare(m0, runes)
        recs1 == [st.recs EXCEPT ![st.match] = r.match]
    IN  IF Beats(r.ok, r.match, st.recs[st.best])
        THEN [recs |-> [recs1 EXCEPT ![st.match].Index = i],
              best |-> st.match,
              match |-> st.best]
        ELSE [recs |-> recs1, best |-> st.best, match |-> st.match]

\* Lines 353-357
BestMatchFromResult(best) == IF best.Score < 0 THEN NilMatch ELSE PtrTo(best)

----------------------------------------------------------------------------
(* The inputs of the specifications *)

RECURSIVE Concat(_, _)
\* the strings made of exactly n units of U
Concat(U, n) ==
    IF n = 0 THEN {<<>>}
    ELSE {u \o s : u \in U, s \in Concat(U, n - 1)}

StringsUpTo(U, n) == UNION {Concat(U, k) : k \in 0..n}

\* Characters of the patterns of the single-alignment specification:
\* a, A, /, U+0000
PatUnits == {<<97>>, <<65>>, <<47>>, <<0>>}

\* Characters of its candidates: a, A, /, -, x, U+0000, and e-acute (2 bytes)
CandUnits == {<<97>>, <<65>>, <<47>>, <<45>>, <<120>>, <<0>>, <<195, 169>>}

\* Patterns of the Find and BestMatch specifications: "", a, A, aa, xa
FindPatterns == {<<>>, <<97>>, <<65>>, <<97, 97>>, <<120, 97>>}

\* Candidates of the Find and BestMatch specifications:
\* "", a, A, aa, xa, xA, xxa, x
Pool == {<<>>, <<97>>, <<65>>, <<97, 97>>, <<120, 97>>, <<120, 65>>,
         <<120, 120, 97>>, <<120>>}

Dictionaries == UNION {[1..n -> Pool] : n \in 0..MaxDict}

\* Runes given to equalFold: U+0000, space, -, /, A, K, S, _, a, k, s, x,
\* E-acute, e-acute, long s, Kelvin sign
FoldRunes == {0, 32, 45, 47, 65, 75, 83, 95, 97, 107, 115, 120, 201, 233,
              383, 8490}

\* Bytes of the candidates of the byte-string specification: a, the two bytes
\* of e-acute, the three bytes of the Kelvin sign, and 0xFF
ByteUnits == {97, 195, 169, 226, 132, 170, 255}

\* Its patterns: a, k, e-acute, and the undecodable byte 0xFF
BytePatterns == {<<97>>, <<107>>, <<195, 169>>, <<255>>}

\* The ASCII code points
AsciiRunes == 0..127

\* Code points given to isSeparator of the BestMatch variant: ASCII, Latin-1,
\* and the code points of U+0100..U+02FF whose low 8 bits are those of a
\* separator (U+012F, U+015F, ...)
SeparatorRunes ==
    0..255 \cup {r \in 256..767 : r % 256 \in {47, 45, 95, 32, 46, 92}}

\* Characters of the candidates of the run specification: a, x, /
RunUnits == {<<97>>, <<120>>, <<47>>}

\* Characters of the separator-free strings around a separator:
\* a, U+0000, e-acute (2 bytes)
PartUnits == {<<97>>, <<0>>, <<195, 169>>}

----------------------------------------------------------------------------
(* The state before any call *)

IdleLoc == MatchCompareEnter(NewMatch(<<>>, 0), <<>>)

IdleCompare ==
    /\ inRunes = <<>>
    /\ loc = IdleLoc
    /\ ret = NilMatch
    /\ commits = <<>>

IdleFind ==
    /\ fi = 0
    /\ matches = NilSlice
    /\ recycled = NilSlice
    /\ calls = <<>>
    /\ result = NilSlice

IdleBest ==
    /\ recs = <<NewMatch(<<>>, 0), NewMatch(<<>>, 0)>>
    /\ bestp = 1
    /\ matchp = 2
    /\ bestRet = NilMatch

IdleFold ==
    /\ foldIn = <<0, 0>>
    /\ foldOut = <<0, 0>>

----------------------------------------------------------------------------
(* Compare(in, target): the call, each iteration of the scan, the return *)

InitCompare ==
    /\ pc = "call"
    /\ api = "Compare"
    /\ pattern \in StringsUpTo(PatUnits, MaxPat)
    /\ \E target \in StringsUpTo(CandUnits, MaxCand) : dictionary = <<target>>
    /\ IdleCompare /\ IdleFind /\ IdleBest /\ IdleFold

CompareCall ==
    /\ pc = "call" /\ api = "Compare"
    /\ inRunes' = ToRunes(pattern)
    /\ loc' = MatchCompareEnter(NewMatch(dictionary[1], 0), inRunes')
    /\ pc' = "scan"
    /\ UNCHANGED <<api, ret, commits, pattern, dictionary, findVars, bestVars,
                   foldVars>>

CompareIter ==
    /\ pc = "scan" /\ api = "Compare"
    /\ MatchCompareGuard(loc)
    /\ loc' = MatchCompareBody(inRunes, loc)
    /\ commits' = IF Len(loc'.match.MatchedIndexes) > Len(loc.match.MatchedIndexes)
                  THEN Append(commits, [at |-> loc.i,
                                        p |-> loc.inRunesIndex,
                                        index |-> loc'.matchedIndex])
                  ELSE commits
    /\ UNCHANGED <<pc, api, inRunes, ret, pattern, dictionary, findVars,
                   bestVars, foldVars>>

CompareReturn ==
    /\ pc = "scan" /\ api = "Compare"
    /\ ~MatchCompareGuard(loc)
    /\ LET r == MatchCompareExit(inRunes, loc)
       IN  /\ loc' = [loc EXCEPT !.match = r.match]
           /\ ret' = IF r.ok THEN PtrTo(r.match) ELSE NilMatch
    /\ pc' = "done"
    /\ UNCHANGED <<api, inRunes, commits, pattern, dictionary, findVars,
                   bestVars, foldVars>>

NextCompare == CompareCall \/ CompareIter \/ CompareReturn

SpecCompare == InitCompare /\ [][NextCompare]_vars

\* Compare(x + s1 + y, x + s2 + y) for separators s1, s2 and separator-free
\* strings x, y of up to MaxPat characters each
InitSeparators ==
    /\ pc = "call"
    /\ api = "Compare"
    /\ \E x, y \in StringsUpTo(PartUnits, MaxPat) :
       \E s1, s2 \in Range(separators) :
           /\ pattern = x \o <<s1>> \o y
           /\ dictionary = <<x \o <<s2>> \o y>>
    /\ IdleCompare /\ IdleFind /\ IdleBest /\ IdleFold

SpecSeparators == InitSeparators /\ [][NextCompare]_vars

\* Compare on candidates that are arbitrary byte strings: well-formed
\* characters of 1, 2 and 3 bytes, stray continuation bytes, truncated
\* characters and the byte 0xFF
InitBytes ==
    /\ pc = "call"
    /\ api = "Compare"
    /\ pattern \in BytePatterns
    /\ \E target \in StringsUpTo({<<b>> : b \in ByteUnits}, MaxBytes) :
           dictionary = <<target>>
    /\ IdleCompare /\ IdleFind /\ IdleBest /\ IdleFold

SpecBytes == InitBytes /\ [][NextCompare]_vars

\* Compare of a run of the letter a, of up to MaxRun characters, on candidates
\* made of a, x and / of up to MaxRun + 1 characters
InitRuns ==
    /\ pc = "call"
    /\ api = "Compare"
    /\ pattern \in StringsUpTo({<<97>>}, MaxRun) \ {<<>>}
    /\ \E target \in StringsUpTo(RunUnits, MaxRun + 1) : dictionary = <<target>>
    /\ IdleCompare /\ IdleFind /\ IdleBest /\ IdleFold

SpecRuns == InitRuns /\ [][NextCompare]_vars

----------------------------------------------------------------------------
(* Find(in, dictionary) and FindFrom(pattern, dictionary) *)

InitFind ==
    /\ pc = "call"
    /\ api \in {"Find", "FindFrom"}
    /\ pattern \in FindPatterns
    /\ dictionary \in Dictionaries
    /\ IdleCompare /\ IdleFind /\ IdleBest /\ IdleFold

\* Lines 86-88, 120-122
FindEmpty ==
    /\ pc = "call" /\ api \in {"Find", "FindFrom"}
    /\ EmptyPattern(pattern)
    /\ result' = NilSlice
    /\ pc' = "done"
    /\ UNCHANGED <<api, compareVars, pattern, dictionary, fi, matches,
                   recycled, calls, bestVars, foldVars>>

\* Lines 90-92, 124-128
FindBegin ==
    /\ pc = "call" /\ api \in {"Find", "FindFrom"}
    /\ ~EmptyPattern(pattern)
    /\ inRunes' = ToRunes(pattern)
    /\ matches' = NilSlice
    /\ recycled' = NilSlice
    /\ fi' = 0
    /\ calls' = IF api = "FindFrom" THEN SourceLen(<<>>) ELSE <<>>
    /\ pc' = "loop"
    /\ UNCHANGED <<api, loc, ret, commits, pattern, dictionary, result,
                   bestVars, foldVars>>

\* Lines 94-111, 129-146
FindIter ==
    /\ pc = "loop" /\ api \in {"Find", "FindFrom"}
    /\ fi < Len(dictionary)
    /\ LET st == FindLoopBody(inRunes, dictionary[fi + 1], fi,
                              [matches |-> matches, matchedIndexes |-> recycled])
       IN  /\ matches' = st.matches
           /\ recycled' = st.matchedIndexes
    /\ calls' = IF api = "FindFrom" THEN SourceString(calls, fi) ELSE calls
    /\ fi' = fi + 1
    /\ UNCHANGED <<pc, api, compareVars, pattern, dictionary, result, bestVars,
                   foldVars>>

\* Lines 112-114, 147-149
FindReturn ==
    /\ pc = "loop" /\ api \in {"Find", "FindFrom"}
    /\ fi >= Len(dictionary)
    /\ result' = sortStable(matches)
    /\ pc' = "done"
    /\ UNCHANGED <<api, compareVars, pattern, dictionary, fi, matches,
                   recycled, calls, bestVars, foldVars>>

NextFind == FindEmpty \/ FindBegin \/ FindIter \/ FindReturn

SpecFind == InitFind /\ [][NextFind]_vars

----------------------------------------------------------------------------
(* BestMatch(source, dictionary) and BestMatchFrom(source, dictionary) *)

InitBest ==
    /\ pc = "call"
    /\ api \in {"BestMatch", "BestMatchFrom"}
    /\ pattern \in FindPatterns
    /\ dictionary \in Dictionaries
    /\ IdleCompare /\ IdleFind /\ IdleBest /\ IdleFold

\* Lines 327-341
BestBegin ==
    /\ pc = "call" /\ api \in {"BestMatch", "BestMatchFrom"}
    /\ recs' = BestMatchFromRecords
    /\ bestp' = 1
    /\ matchp' = 2
    /\ inRunes' = ToRunes(pattern)
    /\ fi' = 0
    /\ calls' = <<[op |-> "Len", arg |-> 0]>>
    /\ pc' = "loop"
    /\ UNCHANGED <<api, loc, ret, commits, pattern, dictionary, matches,
                   recycled, result, bestRet, foldVars>>

\* Lines 342-351
BestIter ==
    /\ pc = "loop" /\ api \in {"BestMatch", "BestMatchFrom"}
    /\ fi < Len(dictionary)
    /\ LET st == BestMatchFromBody(inRunes, dictionary[fi + 1], fi,
                     [recs |-> recs, best |-> bestp, match |-> matchp])
       IN  /\ recs' = st.recs
           /\ bestp' = st.best
           /\ matchp' = st.match
    /\ calls' = Append(calls, [op |-> "String", arg |-> fi])
    /\ fi' = fi + 1
    /\ UNCHANGED <<pc, api, compareVars, pattern, dictionary, matches,
                   recycled, result, bestRet, foldVars>>

\* Lines 353-357
BestReturn ==
    /\ pc = "loop" /\ api \in {"BestMatch", "BestMatchFrom"}
    /\ fi >= Len(dictionary)
    /\ bestRet' = BestMatchFromResult(recs[bestp])
    /\ pc' = "done"
    /\ UNCHANGED <<api, compareVars, pattern, dictionary, findVars, recs,
                   bestp, matchp, foldVars>>

NextBest == BestBegin \/ BestIter \/ BestReturn

SpecBest == InitBest /\ [][NextBest]_vars

----------------------------------------------------------------------------
(* equalFold(a, b) of src/fuzzy.go, called in both argument orders *)

InitFold ==
    /\ pc = "call"
    /\ api = "equalFold"
    /\ foldIn \in FoldRunes \X FoldRunes
    /\ foldOut = <<0, 0>>
    /\ pattern = <<>>
    /\ dictionary = <<>>
    /\ IdleCompare /\ IdleFind /\ IdleBest

FoldCall ==
    /\ pc = "call" /\ api = "equalFold"
    /\ foldOut' = <<equalFold(foldIn[1], foldIn[2]),
                    equalFold(foldIn[2], foldIn[1])>>
    /\ pc' = "done"
    /\ UNCHANGED <<api, compareVars, pattern, dictionary, findVars, bestVars,
                   foldIn>>

NextFold == FoldCall

SpecFold == InitFold /\ [][NextFold]_vars

----------------------------------------------------------------------------
(* isSeparator, equalFoldOld and equalFoldNew of the BestMatch variant *)

InitVariant ==
    /\ pc = "call"
    /\ \/ api = "isSeparator" /\ \E r \in SeparatorRunes : foldIn = <<r, r>>
       \/ api = "equalFoldNew" /\ foldIn \in AsciiRunes \X AsciiRunes
    /\ foldOut = <<0, 0>>
    /\ pattern = <<>>
    /\ dictionary = <<>>
    /\ IdleCompare /\ IdleFind /\ IdleBest

\* isSeparator(r)
SeparatorCall ==
    /\ pc = "call" /\ api = "isSeparator"
    /\ foldOut' = <<teal_isSeparator(foldIn[1])>>
    /\ pc' = "done"
    /\ UNCHANGED <<api, compareVars, pattern, dictionary, findVars, bestVars,
                   foldIn>>

\* equalFoldOld and equalFoldNew on (a, b) and on (b, a), as testEqualFold
\* calls them
VariantFoldCall ==
    /\ pc = "call" /\ api = "equalFoldNew"
    /\ foldOut' = <<equalFoldOld(foldIn[1], foldIn[2]),
                    equalFoldNew(foldIn[1], foldIn[2]),
                    equalFoldOld(foldIn[2], foldIn[1]),
                    equalFoldNew(foldIn[2], foldIn[1])>>
    /\ pc' = "done"
    /\ UNCHANGED <<api, compareVars, pattern, dictionary, findVars, bestVars,
                   foldIn>>

NextVariant == SeparatorCall \/ VariantFoldCall

SpecVariant == InitVariant /\ [][NextVariant]_vars

\* Compare and Find / FindFrom together
InitCompareFind == InitCompare \/ InitFind

NextCompareFind == NextCompare \/ NextFind

SpecCompareFind == InitCompareFind /\ [][NextCompareFind]_vars

----------------------------------------------------------------------------
(* Properties *)

CompareDone == pc = "done" /\ api = "Compare"
FindDone == pc = "done" /\ api \in {"Find", "FindFrom"}
BestDone == pc = "done" /\ api \in {"BestMatch", "BestMatchFrom"}
FoldDone == pc = "done" /\ api = "equalFold"

\* The equivalence relation of the specification: equal, equal under case
\* folding, or both separators
FoldOrbit(a) == {a, SimpleFold(a), SimpleFold(SimpleFold(a))}

Equivalent(a, b) ==
    \/ a = b
    \/ b \in FoldOrbit(a)
    \/ (a \in Range(separators) /\ b \in Range(separators))

\* The code points of P occur in C, in order, under the equivalence
RECURSIVE OccursInOrder(_, _)
OccursInOrder(P, C) ==
    IF P = <<>> THEN TRUE
    ELSE IF C = <<>> THEN FALSE
    ELSE IF Equivalent(Head(P), Head(C)) THEN OccursInOrder(Tail(P), Tail(C))
    ELSE OccursInOrder(P, Tail(C))

\* C1: Compare(P, C) returns a match if and only if the code points of P
\* occur in C in order under the equivalence relation, for every non-empty
\* pattern P and every candidate C, U+0000 included.
C1_CompareIffOccursInOrder ==
    (CompareDone /\ Len(pattern) > 0) =>
        (~ret.isNil <=> OccursInOrder(ToRunes(pattern), ToRunes(dictionary[1])))

\* What does hold: Compare(P, C) returns a match if and only if the code points
\* of P occur in C in order, for every non-empty pattern P and every candidate
\* C that does not contain U+0000.
CompareIffOccursInOrder_NoNulCandidate ==
    (CompareDone /\ Len(pattern) > 0 /\ 0 \notin Range(dictionary[1])) =>
        (~ret.isNil <=> OccursInOrder(ToRunes(pattern), ToRunes(dictionary[1])))

\* mi has one entry per code point of the pattern p, is strictly increasing,
\* and every entry is an offset into the candidate c
WellFormedIndexes(mi, p, c) ==
    /\ Len(mi) = Len(ToRunes(p))
    /\ \A k \in 1..Len(mi) : mi[k] >= 0 /\ mi[k] < Len(c)
    /\ \A k \in 1..(Len(mi) - 1) : mi[k] < mi[k + 1]

\* C2: whenever Compare, Find or FindFrom report a successful match of P on
\* C, MatchedIndexes has exactly one entry per code point of P, is strictly
\* increasing, and every entry is >= 0 and < len(C).
C2_MatchedIndexesWellFormed ==
    /\ (CompareDone /\ ~ret.isNil) =>
           WellFormedIndexes(ret.match.MatchedIndexes, pattern, dictionary[1])
    /\ FindDone =>
           \A k \in 1..Len(result.elems) :
               WellFormedIndexes(result.elems[k].MatchedIndexes, pattern,
                                 dictionary[result.elems[k].Index + 1])

\* C2 witness: Compare("aa", "a" e-acute "a") succeeded with the matched
\* indexes 0 and 3, the second one past the two-byte character.
C2_Witness ==
    /\ CompareDone /\ ~ret.isNil
    /\ pattern = <<97, 97>>
    /\ dictionary[1] = <<97, 195, 169, 97>>
    /\ ret.match.MatchedIndexes = <<0, 3>>

\* C3: Find and FindFrom return matches in non-increasing Score order.
C3_DescendingScore ==
    FindDone =>
        \A k \in 1..(Len(result.elems) - 1) :
            result.elems[k].Score >= result.elems[k + 1].Score

\* C3 witness: three matches were returned, not all of one Score, in an order
\* other than the order they were found in.
C3_Witness ==
    /\ FindDone
    /\ Len(result.elems) = 3
    /\ result.elems # matches.elems
    /\ result.elems[1].Score > result.elems[3].Score

\* C4: among matches with equal Score, Find and FindFrom preserve the
\* original source order.
C4_TiesInSourceOrder ==
    FindDone =>
        \A i, j \in 1..Len(result.elems) :
            (i < j /\ result.elems[i].Score = result.elems[j].Score)
                => result.elems[i].Index < result.elems[j].Index

\* C5: when Find(P, D) is non-empty, BestMatch(P, D) is the first element of
\* Find(P, D), also when several candidates tie for the top score.
C5_BestIsFirstOfFind ==
    BestDone =>
        LET found == teal_FindFrom(pattern, dictionary)
        IN  Len(found.elems) > 0 =>
                /\ ~bestRet.isNil
                /\ bestRet.match = found.elems[1]

\* C6: BestMatch(P, D) returns no match if and only if Find(P, D) is empty,
\* also when every matching candidate has a negative Score.  Stated here for
\* the non-empty patterns; the empty pattern is C9.
C6_BestNilIffFindEmpty ==
    (BestDone /\ Len(pattern) > 0) =>
        (bestRet.isNil <=> Len(teal_FindFrom(pattern, dictionary).elems) = 0)

\* The Match the aligner computes for the candidate at source index i
Aligned(i) == teal_MatchCompare(NewMatch(dictionary[i + 1], i), ToRunes(pattern))

\* C7: when BestMatchFrom returns a match, it is the match of the candidate
\* at its Index, no candidate on which Compare succeeds has a strictly higher
\* Score, and among the candidates tied at that Score the returned one has
\* the smallest source index.
C7_BestIsHighestEarliest ==
    (BestDone /\ ~bestRet.isNil) =>
        LET b == bestRet.match
        IN  /\ b.Index \in 0..(Len(dictionary) - 1)
            /\ Aligned(b.Index).ok
            /\ Aligned(b.Index).match.Score = b.Score
            /\ \A i \in 0..(Len(dictionary) - 1) :
                   Aligned(i).ok =>
                       /\ Aligned(i).match.Score <= b.Score
                       /\ Aligned(i).match.Score = b.Score => b.Index <= i

\* C7 witness: a match is returned from a dictionary of three candidates on
\* which Compare succeeds, the first with a lower Score than the other two,
\* which tie.
C7_Witness ==
    /\ BestDone /\ ~bestRet.isNil
    /\ Len(pattern) > 0
    /\ Len(dictionary) = 3
    /\ \A i \in 0..2 : Aligned(i).ok
    /\ Aligned(0).match.Score < Aligned(1).match.Score
    /\ Aligned(1).match.Score = Aligned(2).match.Score
    /\ bestRet.match.Index = 1

\* C8: Find and FindFrom return a result with zero matches for the empty
\* pattern, for every dictionary.
C8_EmptyPatternFindsNothing ==
    (FindDone /\ pattern = <<>>) => Len(result.elems) = 0

\* C8 witness: Find returned on the empty pattern and a dictionary of three
\* candidates, the empty string among them.
C8_Witness ==
    /\ FindDone /\ pattern = <<>>
    /\ Len(dictionary) = 3
    /\ <<>> \in Range(dictionary)

\* C9: BestMatch and BestMatchFrom return no match for the empty pattern, for
\* every dictionary, also one that contains the empty string.
C9_EmptyPatternNoBest ==
    (BestDone /\ pattern = <<>>) => bestRet.isNil

\* C10: equalFold(a, b) = equalFold(b, a) for every pair of code points,
\* U+0000 included.
C10_EqualFoldSymmetric ==
    FoldDone => foldOut[1] = foldOut[2]

\* C11: equalFold(a, b) returns caseSensitiveBonus when a = b, 1 when a # b
\* and the two are equal under case folding or both separators, and 0 for
\* every other pair of code points.
C11_EqualFoldValues ==
    FoldDone =>
        LET a == foldIn[1]
            b == foldIn[2]
        IN  foldOut[1] = IF a = b THEN caseSensitiveBonus
                         ELSE IF Equivalent(a, b) THEN 1
                         ELSE 0

\* What does hold: the same three values for every pair whose second code
\* point is not U+0000.
EqualFoldValues_NoNulTarget ==
    (FoldDone /\ foldIn[2] # 0) =>
        LET a == foldIn[1]
            b == foldIn[2]
        IN  foldOut[1] = IF a = b THEN caseSensitiveBonus
                         ELSE IF Equivalent(a, b) THEN 1
                         ELSE 0

\* P and C are x + s1 + y and x + s2 + y for separators s1, s2 and strings
\* x, y without separators
SeparatorVariants(P, C) ==
    /\ Len(P) = Len(C)
    /\ \E k \in 1..Len(P) :
           /\ isSeparator(P[k]) /\ isSeparator(C[k])
           /\ \A j \in 1..Len(P) :
                  j # k => (P[j] = C[j] /\ ~isSeparator(P[j]))

\* C12: for any two separators s1, s2 and any separator-free strings x, y,
\* Compare(x + s1 + y, x + s2 + y) returns a match.
C12_SeparatorsInterchangeable ==
    (CompareDone /\ SeparatorVariants(pattern, dictionary[1])) => ~ret.isNil

\* C12 witness: Compare("a/" e-acute, "a\" e-acute) returned a match aligned
\* on all three characters, the separators differing.
C12_Witness ==
    /\ CompareDone /\ ~ret.isNil
    /\ pattern = <<97, 47, 195, 169>>
    /\ dictionary[1] = <<97, 92, 195, 169>>
    /\ ret.match.MatchedIndexes = <<0, 1, 2>>

\* The patterns equal to the pattern P (code points) under case folding
CaseVariants(P) ==
    {q \in [1..Len(P) -> UNION {FoldOrbit(P[k]) : k \in 1..Len(P)}] :
        \A k \in 1..Len(P) : q[k] \in FoldOrbit(P[k])}

\* P (code points) equals the characters of C at the offsets mi exactly
ExactAt(P, C, mi) ==
    /\ Len(mi) = Len(P)
    /\ \A k \in 1..Len(P) : DecodeRuneInString(C, mi[k]).rune = P[k]

\* Match.Compare of the pattern q (code points) on the candidate C
ScoreOf(q, C) == MatchCompare(NewMatch(C, 0), q)

\* C13: when Compare aligns P on C and P equals C's characters at the matched
\* indexes exactly, every pattern P' equal to P under case folding that Compare
\* aligns to the same MatchedIndexes scores no higher than P.
C13_ExactCaseScoresAtLeast ==
    (/\ CompareDone /\ ~ret.isNil
     /\ ExactAt(inRunes, dictionary[1], ret.match.MatchedIndexes)) =>
        \A q \in CaseVariants(inRunes) :
            LET r == ScoreOf(q, dictionary[1])
            IN  (r.ok /\ r.match.MatchedIndexes = ret.match.MatchedIndexes)
                    => ret.match.Score >= r.match.Score

\* C13 witness: Compare("aA", "aaA") aligned the pattern on the offsets 0 and
\* 2, where the candidate has exactly "a" and "A"; the pattern "aa" is aligned
\* on the same offsets and reaches the same Score, and the pattern "AA" a
\* lower one.
C13_Witness ==
    /\ CompareDone /\ ~ret.isNil
    /\ pattern = <<97, 65>>
    /\ dictionary[1] = <<97, 97, 65>>
    /\ ret.match.MatchedIndexes = <<0, 2>>
    /\ ExactAt(inRunes, dictionary[1], ret.match.MatchedIndexes)
    /\ ScoreOf(<<97, 97>>, dictionary[1]).match.MatchedIndexes = <<0, 2>>
    /\ ScoreOf(<<97, 97>>, dictionary[1]).match.Score = ret.match.Score
    /\ ScoreOf(<<65, 65>>, dictionary[1]).match.MatchedIndexes = <<0, 2>>
    /\ ScoreOf(<<65, 65>>, dictionary[1]).match.Score < ret.match.Score

\* The strings s and t differ, and only in the case of letters
DifferOnlyInCase(s, t) ==
    LET rs == ToRunes(s)
        rt == ToRunes(t)
    IN  /\ rs # rt
        /\ Len(rs) = Len(rt)
        /\ \A k \in 1..Len(rs) : rt[k] \in FoldOrbit(rs[k])

\* C14: of two candidates that both match P and differ only in letter case,
\* the one whose matched characters have exactly the case typed in P gets a
\* higher Score from Find than the other.
C14_ExactCaseCandidateScoresHigher ==
    FindDone =>
        \A k1, k2 \in 1..Len(result.elems) :
            LET m1 == result.elems[k1]
                m2 == result.elems[k2]
            IN  (/\ DifferOnlyInCase(m1.Str, m2.Str)
                 /\ ExactAt(inRunes, m1.Str, m1.MatchedIndexes)
                 /\ ~ExactAt(inRunes, m2.Str, m2.MatchedIndexes))
                    => m1.Score > m2.Score

\* The calls one FindFrom makes on a Source of n strings, when it has made the
\* first k of the String calls: Len(), String(0), ..., String(k - 1)
SourceCalls(k) ==
    <<[op |-> "Len", arg |-> 0]>> \o [j \in 1..k |-> [op |-> "String", arg |-> j - 1]]

\* During FindFrom on a non-empty pattern the calls made so far are Len()
\* once and then String(0), String(1), ... in this order, one per index; when
\* FindFrom has returned every index below Len() has been asked for.
CallsInOrder ==
    (api = "FindFrom" /\ pc \in {"loop", "done"} /\ Len(pattern) > 0) =>
        /\ fi \in 0..Len(dictionary)
        /\ calls = SourceCalls(fi)
        /\ pc = "done" => fi = Len(dictionary)

\* C15: during one FindFrom call on a non-empty pattern, Len() is read once
\* and String(i) is called exactly once for each i = 0, ..., Len() - 1 in
\* ascending order, never with an index outside [0, Len()), and the Source is
\* never written.
C15_SourceReadInOrderNeverWritten ==
    /\ []CallsInOrder
    /\ [][dictionary' = dictionary]_vars

\* C15 witness: FindFrom returned on a Source of three strings, of which one
\* matched and one did not, after four calls on the Source.
C15_Witness ==
    /\ FindDone /\ api = "FindFrom" /\ Len(pattern) > 0
    /\ Len(dictionary) = 3
    /\ Len(calls) = 4
    /\ Len(result.elems) = 1

\* C16: for a non-empty pattern P, the result of Find(P, D) and of FindFrom
\* contains source index i exactly once if Compare(P, D[i]) succeeds and not
\* at all otherwise, and every returned match m has m.Str = D[m.Index].
C16_OneMatchPerMatchingIndex ==
    (FindDone /\ Len(pattern) > 0) =>
        /\ \A i \in 0..(Len(dictionary) - 1) :
               Cardinality({k \in 1..Len(result.elems) :
                               result.elems[k].Index = i})
                   = IF Compare(pattern, dictionary[i + 1]).isNil THEN 0 ELSE 1
        /\ \A k \in 1..Len(result.elems) :
               /\ result.elems[k].Index \in 0..(Len(dictionary) - 1)
               /\ result.elems[k].Str = dictionary[result.elems[k].Index + 1]

\* C16 witness: Find returned two matches out of three candidates, both of one
\* and the same string at two source indexes, in an order other than the one
\* they were found in.
C16_Witness ==
    /\ FindDone /\ Len(pattern) > 0
    /\ Len(dictionary) = 3
    /\ Len(result.elems) = 2
    /\ result.elems[1].Str = result.elems[2].Str
    /\ result.elems # matches.elems

\* C17: Find and FindFrom always return a collection, possibly empty, and
\* never nil, both for the empty pattern and when no candidate matches.
C17_NeverNil ==
    FindDone => ~result.isNil

\* Find and FindFrom return nil exactly when they return no match
NilIffNoMatch ==
    FindDone => (result.isNil <=> Len(result.elems) = 0)

\* Every iteration of the scan moves the byte offset forward, by at least one
\* byte and not past the end of the candidate, and the step taken once the
\* offset has reached the end is the return: len(candidate) minus the offset
\* is a variant of the loop.
ScanStep ==
    (pc = "scan" /\ api = "Compare") =>
        IF loc.i < Len(dictionary[1])
        THEN pc' = "scan" /\ loc'.i > loc.i /\ loc'.i <= Len(dictionary[1])
        ELSE pc' = "done"

\* C18: Match.Compare terminates with a result on every pattern and every
\* candidate, multi-byte characters and undecodable bytes included: the scan
\* offset advances by at least one byte in every loop iteration, so the loop
\* body runs at most len(candidate) times.
C18_CompareTerminates == [][ScanStep]_vars

\* C18 witness: Compare("a", C) returned a match at offset 3 for C made of a
\* two-byte character, the undecodable byte 0xFF and "a", the scan having
\* stopped at offset 4.
C18_Witness ==
    /\ CompareDone /\ ~ret.isNil
    /\ pattern = <<97>>
    /\ dictionary[1] = <<195, 169, 255, 97>>
    /\ ret.match.MatchedIndexes = <<3>>
    /\ loc.i = 4

\* The step is one iteration of the scan of Compare, at candidate offset loc.i
\* with the pattern cursor loc.inRunesIndex
ScanIteration == pc = "scan" /\ api = "Compare" /\ loc.i < Len(dictionary[1])

\* The iteration commits
Commits == Len(loc'.match.MatchedIndexes) > Len(loc.match.MatchedIndexes)

\* A pending match for the cursor exists when the commit is decided: one was
\* left by an earlier iteration, or the character at loc.i matches
PendingExists == loc.bestScore > -1 \/ LocalScore(inRunes, loc).matched

\* The next pattern and candidate characters, or the end sentinel
PatternAtEnd == loc.inRunesIndex >= Len(inRunes) - 1
CandidateAtEnd == loc'.i >= Len(dictionary[1])
NextPatternChar == inRunes[loc.inRunesIndex + 2]
NextCandidateChar == loc'.nextTargetRune

RECURSIVE CharOffsets(_, _)
CharOffsets(s, k) ==
    IF k >= Len(s) THEN {}
    ELSE {k} \cup CharOffsets(s, k + DecodeRuneInString(s, k).size)

\* The state of the scan of the pattern P (code points) on C when it arrives
\* at offset j
RECURSIVE ScanUntil(_, _, _)
ScanUntil(P, l, j) ==
    IF l.i < j /\ MatchCompareGuard(l)
    THEN ScanUntil(P, MatchCompareBody(P, l), j)
    ELSE l

\* The local score the scan gives offset j
LocalScoreAt(P, C, j) ==
    LocalScore(P, ScanUntil(P, MatchCompareEnter(NewMatch(C, 0), P), j)).score

\* The k-th commit of the scan took the earliest of the best-scoring offsets
\* among those in `among`
EarliestBest(P, C, k, among) ==
    /\ commits[k].index \in among
    /\ \A j \in among :
           /\ LocalScoreAt(P, C, j) <= LocalScoreAt(P, C, commits[k].index)
           /\ LocalScoreAt(P, C, j) = LocalScoreAt(P, C, commits[k].index)
                  => commits[k].index <= j

\* The offsets after the commit before the k-th and up to `last` whose
\* character is equivalent to the pattern character of the k-th commit
EquivalentSince(P, C, k, last) ==
    {j \in CharOffsets(C, 0) :
        /\ j > (IF k = 1 THEN -1 ELSE commits[k - 1].at)
        /\ j <= last
        /\ Equivalent(P[commits[k].p + 1], DecodeRuneInString(C, j).rune)}

\* C20: the index committed for a pattern character is the earliest candidate
\* position with the highest local score among all positions equivalent to
\* that character scanned since the previous commit; for the last pattern
\* character this is the best-scoring equivalent position in the whole
\* remainder of the candidate.
C20_CommitsEarliestBest ==
    CompareDone =>
        \A k \in 1..Len(commits) :
            commits[k].p < Len(inRunes) =>
                EarliestBest(inRunes, dictionary[1], k,
                    EquivalentSince(inRunes, dictionary[1], k,
                        IF commits[k].p = Len(inRunes) - 1
                        THEN Len(dictionary[1])
                        ELSE commits[k].at))

\* What does hold: the same for every candidate that does not contain U+0000.
CommitsEarliestBest_NoNulCandidate ==
    (CompareDone /\ 0 \notin Range(dictionary[1])) =>
        \A k \in 1..Len(commits) :
            commits[k].p < Len(inRunes) =>
                EarliestBest(inRunes, dictionary[1], k,
                    EquivalentSince(inRunes, dictionary[1], k,
                        IF commits[k].p = Len(inRunes) - 1
                        THEN Len(dictionary[1])
                        ELSE commits[k].at))

\* The adjacent bonus the scan awards offset j of the candidate
BonusAt(P, C, j) ==
    LocalScore(P, ScanUntil(P, MatchCompareEnter(NewMatch(C, 0), P), j)).bonus

\* The scan is about to run the iteration at offset loc.i
AtIteration == pc = "scan" /\ api = "Compare" /\ MatchCompareGuard(loc)

\* C21: a matching candidate position directly after the previously committed
\* match receives the adjacent bonus 2 * B + adjacentMatchBonus, where B is
\* the adjacent bonus that was awarded to that committed match (0 if none):
\* an unbroken run earns 5, 15, 35, ..., and a run after a gap starts again
\* at 5.
C21_AdjacentBonusCompounds ==
    (AtIteration /\ LocalScore(inRunes, loc).matched) =>
        LET mi == loc.match.MatchedIndexes
        IN  (Len(mi) > 0 /\ loc.lastIndex = mi[Len(mi)]) =>
                LocalScore(inRunes, loc).bonus
                    = 2 * BonusAt(inRunes, dictionary[1], mi[Len(mi)])
                      + adjacentMatchBonus

\* What does hold: the bonus is 2 * S + adjacentMatchBonus, where S is the
\* sum of all the adjacent bonuses awarded so far in the scan.
RECURSIVE SumBonuses(_, _, _)
SumBonuses(P, C, offsets) ==
    IF offsets = {} THEN 0
    ELSE LET j == CHOOSE o \in offsets : TRUE
             l == ScanUntil(P, MatchCompareEnter(NewMatch(C, 0), P), j)
         IN  (IF LocalScore(P, l).matched THEN LocalScore(P, l).bonus ELSE 0)
             + SumBonuses(P, C, offsets \ {j})

AdjacentBonusAccumulates ==
    (AtIteration /\ LocalScore(inRunes, loc).matched) =>
        LET mi == loc.match.MatchedIndexes
        IN  LocalScore(inRunes, loc).bonus =
                IF Len(mi) > 0 /\ loc.lastIndex = mi[Len(mi)]
                THEN 2 * SumBonuses(inRunes, dictionary[1],
                           {j \in CharOffsets(dictionary[1], 0) : j < loc.i})
                     + adjacentMatchBonus
                ELSE 0

\* The leading penalty of a first match at offset k
LeadingPenalty(k) ==
    IF k * unmatchedLeadingCharPenalty > maxUnmatchedLeadingCharPenalty
    THEN k * unmatchedLeadingCharPenalty
    ELSE maxUnmatchedLeadingCharPenalty

\* The sum, over the first n commits of the scan, of the local score of the
\* committed offset, the first one adjusted by the leading penalty
RECURSIVE SumCommitted(_, _, _)
SumCommitted(P, C, n) ==
    IF n = 0 THEN 0
    ELSE SumCommitted(P, C, n - 1)
         + LocalScoreAt(P, C, commits[n].index)
         + (IF n = 1 THEN LeadingPenalty(commits[n].index) ELSE 0)

\* The sum, over the first n commits, of the value of the commit test: the
\* equalFold of the next pattern character and the next candidate character
RECURSIVE SumExtra(_, _, _)
SumExtra(P, C, n) ==
    IF n = 0 THEN 0
    ELSE LET after == commits[n].at + DecodeRuneInString(C, commits[n].at).size
             nextIn == IF commits[n].p < Len(P) - 1
                       THEN P[commits[n].p + 2] ELSE 0
             nextTarget == IF after < Len(C)
                           THEN DecodeRuneInString(C, after).rune ELSE 0
         IN  SumExtra(P, C, n - 1) + equalFold(nextIn, nextTarget)

\* C22: after Match.Compare, Score equals the sum over the committed matches
\* of their pending-best local score, the first one adjusted by the leading
\* penalty, plus the global penalty (number of committed matches minus
\* candidate byte length), with no other contribution.
C22_ScoreIsSumOfCommitted ==
    CompareDone =>
        loc.match.Score = SumCommitted(inRunes, dictionary[1], Len(commits))
                          + (Len(commits) - Len(dictionary[1]))

\* What does hold, for candidates without U+0000: Score is that sum plus the
\* value of the commit test of every commit.
ScoreIsSumOfCommittedAndExtra ==
    (CompareDone /\ 0 \notin Range(dictionary[1])) =>
        loc.match.Score = SumCommitted(inRunes, dictionary[1], Len(commits))
                          + SumExtra(inRunes, dictionary[1], Len(commits))
                          + (Len(commits) - Len(dictionary[1]))

\* The character of C before the one that starts at offset j > 0
PrevRune(C, j) ==
    LET o == CHOOSE o \in CharOffsets(C, 0) :
                 o + DecodeRuneInString(C, o).size = j
    IN  DecodeRuneInString(C, o).rune

\* The sum of f[k] for k in 1..n
RECURSIVE SumTo(_, _)
SumTo(f, n) == IF n = 0 THEN 0 ELSE SumTo(f, n - 1) + f[n]

\* The Score made of the bonuses and penalties alone, for the pattern P (code
\* points) matched on C at the offsets mi
BonusScore(P, C, mi) ==
    LET camel == [k \in 1..Len(mi) |->
                     IF /\ mi[k] > 0
                        /\ IsLower(PrevRune(C, mi[k]))
                        /\ IsUpper(DecodeRuneInString(C, mi[k]).rune)
                     THEN camelCaseMatchBonus ELSE 0]
        sep == [k \in 1..Len(mi) |->
                   IF mi[k] > 0 /\ isSeparator(PrevRune(C, mi[k]))
                   THEN matchFollowingSeparatorBonus ELSE 0]
        adj == [k \in 1..Len(mi) |-> BonusAt(P, C, mi[k])]
    IN  (IF Len(mi) > 0 /\ mi[1] = 0 THEN firstCharMatchBonus ELSE 0)
        + SumTo(camel, Len(mi))
        + SumTo(sep, Len(mi))
        + SumTo(adj, Len(mi))
        + (IF Len(mi) > 0 THEN LeadingPenalty(mi[1]) ELSE 0)
        - (Len(C) - Len(mi))

\* C23: the Score Find gives a matched candidate is 10 if a pattern character
\* matches at offset 0, plus 20 for each matched uppercase character after a
\* lowercase one, plus 20 for each matched character after a separator, plus
\* the adjacent bonuses, plus the capped leading penalty, minus (candidate
\* byte length - number of matched characters); the strength of the character
\* equivalence adds nothing.
C23_ScoreIsBonusesAndPenalties ==
    FindDone =>
        \A k \in 1..Len(result.elems) :
            result.elems[k].Score
                = BonusScore(inRunes, result.elems[k].Str,
                             result.elems[k].MatchedIndexes)

\* What does hold: the matches the Find of the BestMatch variant computes for
\* the same pattern and dictionary have exactly that Score.
VariantScoreIsBonusesAndPenalties ==
    BestDone =>
        \A k \in 1..Len(teal_FindFrom(pattern, dictionary).elems) :
            LET m == teal_FindFrom(pattern, dictionary).elems[k]
            IN  m.Score = BonusScore(inRunes, m.Str, m.MatchedIndexes)

\* The pending best local score when the commit of the iteration is decided
PendingBest ==
    IF /\ LocalScore(inRunes, loc).matched
       /\ LocalScore(inRunes, loc).score > loc.bestScore
    THEN LocalScore(inRunes, loc).score
    ELSE loc.bestScore

\* What a committing iteration adds to Score beyond the pending best local
\* score and the value of the commit test
PenaltyOfCommit ==
    loc'.match.Score - loc.match.Score - PendingBest
        - equalFold(NextInRune(inRunes, loc), loc'.nextTargetRune)

\* C24: the leading penalty is applied exactly once per alignment, to the
\* first committed match only, and equals max(-5 k, -15) where k is the offset
\* of that first match; no later commit is penalised and the penalty is never
\* below -15.
C24_LeadingPenaltyOnceAndCapped ==
    [][(ScanIteration /\ Commits) =>
          /\ PenaltyOfCommit =
                 IF Len(loc.match.MatchedIndexes) = 0
                 THEN LeadingPenalty(loc'.match.MatchedIndexes[1])
                 ELSE 0
          /\ PenaltyOfCommit >= maxUnmatchedLeadingCharPenalty
          /\ PenaltyOfCommit <= 0]_vars

\* C24 witness: Compare("a", "xxxxa") returned a match at offset 4 whose Score
\* -13 = 3 - 15 + 3 - 4 carries the capped penalty -15 and not -20.
C24_Witness ==
    /\ CompareDone /\ ~ret.isNil
    /\ pattern = <<97>>
    /\ dictionary[1] = <<120, 120, 120, 120, 97>>
    /\ ret.match.MatchedIndexes = <<4>>
    /\ ret.match.Score = -13

\* C25: every entry of MatchedIndexes is the byte offset in the candidate at
\* which the matched code point starts, so it never points into the middle of
\* a multi-byte character.
C25_MatchedIndexesAtCharacterStarts ==
    (api = "Compare" /\ pc \in {"scan", "done"}) =>
        \A k \in 1..Len(loc.match.MatchedIndexes) :
            loc.match.MatchedIndexes[k] \in CharOffsets(dictionary[1], 0)

\* C25 witness: Compare("a", C) returned a match at offset 3 for C made of the
\* three-byte Kelvin sign and "a".
C25_Witness ==
    /\ CompareDone /\ ~ret.isNil
    /\ pattern = <<97>>
    /\ dictionary[1] = <<226, 132, 170, 97>>
    /\ ret.match.MatchedIndexes = <<3>>

\* C26: for a result of at most 20 matches, Find and FindFrom return matches
\* of equal Score with the larger source index first.
C26_TiesInReverseSourceOrder ==
    (FindDone /\ Len(result.elems) <= 20) =>
        \A i, j \in 1..Len(result.elems) :
            (i < j /\ result.elems[i].Score = result.elems[j].Score)
                => result.elems[i].Index > result.elems[j].Index

\* C26 witness: FindFrom returned two matches of one Score out of three
\* candidates, the one of source index 2 before the one of source index 0.
C26_Witness ==
    /\ FindDone /\ api = "FindFrom"
    /\ Len(dictionary) = 3
    /\ Len(result.elems) = 2
    /\ result.elems[1].Score = result.elems[2].Score
    /\ result.elems[1].Index = 2
    /\ result.elems[2].Index = 0

\* C27: at every step of the scan in Match.Compare the number of committed
\* matches never exceeds the pattern length: once the last pattern character
\* is committed no further commit occurs and no index is appended twice, for
\* candidates over any code points, U+0000 included.
C27_CommitsBoundedByPattern ==
    (api = "Compare" /\ pc \in {"scan", "done"}) =>
        LET mi == loc.match.MatchedIndexes
        IN  /\ Len(mi) <= Len(inRunes)
            /\ \A j, k \in 1..Len(mi) : j < k => mi[j] # mi[k]

\* What does hold: the same for every candidate that does not contain U+0000.
CommitsBoundedByPattern_NoNulCandidate ==
    (api = "Compare" /\ pc \in {"scan", "done"}
        /\ 0 \notin Range(dictionary[1])) =>
        LET mi == loc.match.MatchedIndexes
        IN  /\ Len(mi) <= Len(inRunes)
            /\ \A j, k \in 1..Len(mi) : j < k => mi[j] # mi[k]

\* BestMatch / BestMatchFrom is in its loop or has returned
InBest == api \in {"BestMatch", "BestMatchFrom"} /\ pc \in {"loop", "done"}

\* There are two records, the two pointers refer to one each, and once a
\* candidate has won the best record holds exactly what the aligner computes
\* for the candidate at its Index; that record is what is returned.
BestRecordIsWinner ==
    InBest =>
        /\ Len(recs) = 2
        /\ {bestp, matchp} = {1, 2}
        /\ recs[bestp].Score >= 0 =>
               /\ recs[bestp].Index \in 0..(fi - 1)
               /\ recs[bestp] = Aligned(recs[bestp].Index).match
        /\ (pc = "done" /\ ~bestRet.isNil) => bestRet.match = recs[bestp]

\* An iteration either leaves the pointers and the best record as they are,
\* or swaps the two pointers, and then the record of the former best is left
\* as it is
BestKeptOrSwapped ==
    (InBest /\ pc = "loop" /\ pc' = "loop") =>
        \/ bestp' = bestp /\ matchp' = matchp /\ recs'[bestp] = recs[bestp]
        \/ /\ bestp' = matchp /\ matchp' = bestp
           /\ recs'[bestp] = recs[bestp]
           /\ recs'[bestp'].Score > recs[bestp].Score

\* C28: BestMatchFrom uses exactly two Match records whose roles are swapped
\* when the current candidate beats the best; the returned match's Str, Index,
\* Score and MatchedIndexes are exactly those computed for the winning
\* candidate, unchanged by the Compare calls on any later candidate.
C28_BestRecordUntouched ==
    /\ []BestRecordIsWinner
    /\ [][BestKeptOrSwapped]_vars

\* C28 witness: BestMatch returned the candidate of source index 1 out of
\* three, after two swaps, and the third candidate, on which Compare succeeds
\* too, was compared in the other record.
C28_Witness ==
    /\ BestDone /\ ~bestRet.isNil
    /\ Len(pattern) > 0
    /\ Len(dictionary) = 3
    /\ bestRet.match.Index = 1
    /\ bestp = 1
    /\ Aligned(2).ok
    /\ recs[matchp].Str = dictionary[3]
    /\ recs[matchp].MatchedIndexes # <<>>

\* C29: in the BestMatch variant isSeparator(r) is true exactly when r is one
\* of the six separator code points, for every code point r, also the
\* non-ASCII ones whose low 8 bits equal a separator byte.
C29_IsSeparatorExact ==
    (pc = "done" /\ api = "isSeparator") =>
        (foldOut[1] <=> foldIn[1] \in Range(separators))

\* What does hold: the same for every code point below U+0100.
IsSeparatorExact_Below256 ==
    (pc = "done" /\ api = "isSeparator" /\ foldIn[1] < 256) =>
        (foldOut[1] <=> foldIn[1] \in Range(separators))

\* C30: equalFoldNew returns the same value as equalFoldOld for every pair of
\* ASCII code points, in both argument orders.
C30_EqualFoldNewIsOld ==
    (pc = "done" /\ api = "equalFoldNew") =>
        /\ foldOut[2] = foldOut[1]
        /\ foldOut[4] = foldOut[3]

\* What does hold: the two agree on every pair of ASCII letters, digits and
\* separators.
LettersDigitsSeparators ==
    (48..57) \cup (65..90) \cup (97..122) \cup Range(separators)

EqualFoldNewIsOld_LettersDigitsSeparators ==
    (/\ pc = "done" /\ api = "equalFoldNew"
     /\ foldIn[1] \in LettersDigitsSeparators
     /\ foldIn[2] \in LettersDigitsSeparators) =>
        /\ foldOut[2] = foldOut[1]
        /\ foldOut[4] = foldOut[3]

====
